---- MODULE Spec2Model ----
(***************************************************************************)
(* Fitness-tracker module (homework.py): read_package builds a training    *)
(* record from a sensor package, show_training_info derives the report,    *)
(* get_message renders it, and the driver loop prints one line per         *)
(* package.                                                                *)
(*                                                                         *)
(* Numbers.  The source computes in Python floats.  The model computes in  *)
(* exact rationals [n |-> numerator, d |-> denominator > 0] in lowest      *)
(* terms, applying the operations in the order the source applies them.    *)
(* A Python exception is a record with an "exc" field; a function that     *)
(* raises returns that record, and every caller passes it on unchanged     *)
(* unless the source catches it.                                           *)
(***************************************************************************)
EXTENDS Integers, Sequences

VARIABLES packages, i, pc, training, info, stdout, error

vars == <<packages, i, pc, training, info, stdout, error>>

(***************************************************************************)
(* Rational arithmetic                                                     *)
(***************************************************************************)
Abs(x) == IF x < 0 THEN -x ELSE x

RECURSIVE GCD(_, _)
GCD(a, b) == IF b = 0 THEN a ELSE GCD(b, a % b)

\* n/d in lowest terms with a positive denominator (d # 0).
Rat(n, d) ==
    LET g == GCD(Abs(n), Abs(d))
        s == IF d < 0 THEN -1 ELSE 1
    IN  [n |-> s * (n \div g), d |-> s * (d \div g)]

RatInt(x) == [n |-> x, d |-> 1]

RatAdd(a, b) ==
    LET g == GCD(a.d, b.d)
    IN  Rat(a.n * (b.d \div g) + b.n * (a.d \div g), (a.d \div g) * b.d)

RatMul(a, b) ==
    LET g1 == GCD(Abs(a.n), b.d)
        g2 == GCD(Abs(b.n), a.d)
    IN  Rat((a.n \div g1) * (b.n \div g2), (a.d \div g2) * (b.d \div g1))

RatIsZero(a) == a.n = 0

(***************************************************************************)
(* Python exceptions and None                                              *)
(***************************************************************************)
None == [none |-> TRUE]

Exc(kind, args) == [exc |-> kind, args |-> args]

IsExc(x) == "exc" \in DOMAIN x

IsNone(x) == "none" \in DOMAIN x

ZeroDivisionError == Exc("ZeroDivisionError", <<"division by zero">>)

NotImplementedError == Exc("NotImplementedError", <<>>)

\* Python's true division: raises ZeroDivisionError on a zero divisor.
TrueDiv(a, b) ==
    IF IsExc(a) THEN a
    ELSE IF IsExc(b) THEN b
    ELSE IF RatIsZero(b) THEN ZeroDivisionError
    ELSE RatMul(a, Rat(b.d, b.n))

Mul(a, b) == IF IsExc(a) THEN a ELSE IF IsExc(b) THEN b ELSE RatMul(a, b)

Add(a, b) == IF IsExc(a) THEN a ELSE IF IsExc(b) THEN b ELSE RatAdd(a, b)

(***************************************************************************)
(* Class constants                                                         *)
(***************************************************************************)
M_IN_KM == 1000

MIN_IN_H == 60

CM_IN_M == 100

\* A plausible fault: Swimming does not override LEN_STEP.
LEN_STEP_NotOverridden(t) == Rat(65, 100)

\* Training.LEN_STEP = 0.65, overridden by Swimming.LEN_STEP = 1.38.
LEN_STEP(t) == IF t.kind = "Swimming" THEN Rat(138, 100) ELSE Rat(65, 100)

CALORIES_MEAN_SPEED_MULTIPLIER == RatInt(18)

CALORIES_MEAN_SPEED_SHIFT == Rat(179, 100)

CALORIES_WEIGHT_MULTIPLIER == Rat(35, 1000)

CALORIES_SPEED_HEIGHT_MULTIPLIER == Rat(29, 1000)

KMH_IN_MSEC == Rat(278, 1000)

EXTRA_MEAN_SPEED == Rat(11, 10)

MEAN_SPEED_MULTIPLIER == RatInt(2)

(***************************************************************************)
(* Constructors: the record's kind is type(self).__name__                  *)
(***************************************************************************)
TrainingInit(kind, action, duration, weight) ==
    [kind |-> kind, action |-> action, duration |-> duration, weight |-> weight]

RunningInit(data) == TrainingInit("Running", data[1], data[2], data[3])

SportsWalkingInit(data) ==
    [kind |-> "SportsWalking", action |-> data[1], duration |-> data[2],
     weight |-> data[3], height |-> data[4]]

\* A plausible fault: the two pool parameters stored the wrong way round.
SwimmingInitPoolSwapped(data) ==
    [kind |-> "Swimming", action |-> data[1], duration |-> data[2],
     weight |-> data[3], length_pool |-> data[5], count_pool |-> data[4]]

SwimmingInit(data) ==
    [kind |-> "Swimming", action |-> data[1], duration |-> data[2],
     weight |-> data[3], length_pool |-> data[4], count_pool |-> data[5]]

(***************************************************************************)
(* Methods, resolved through the record's own kind                         *)
(***************************************************************************)
get_distance(t) ==
    TrueDiv(RatMul(RatInt(t.action), LEN_STEP(t)), RatInt(M_IN_KM))

TrainingMeanSpeed(t) == TrueDiv(get_distance(t), RatInt(t.duration))

SwimmingMeanSpeed(t) ==
    TrueDiv(TrueDiv(RatMul(RatInt(t.length_pool), RatInt(t.count_pool)),
                    RatInt(M_IN_KM)),
            RatInt(t.duration))

\* A plausible fault: Swimming does not override get_mean_speed.
get_mean_speed_NotOverridden(t) == TrainingMeanSpeed(t)

get_mean_speed(t) ==
    IF t.kind = "Swimming" THEN SwimmingMeanSpeed(t) ELSE TrainingMeanSpeed(t)

RunningCalories(t) ==
    Mul(Mul(Add(Mul(CALORIES_MEAN_SPEED_MULTIPLIER, get_mean_speed(t)),
                CALORIES_MEAN_SPEED_SHIFT),
            TrueDiv(RatInt(t.weight), RatInt(M_IN_KM))),
        RatMul(RatInt(t.duration), RatInt(MIN_IN_H)))

\* A plausible fault: the speed in m/s is not squared.
SportsWalkingCaloriesNoSquare(t) ==
    LET v  == Mul(get_mean_speed(t), KMH_IN_MSEC)
        h  == TrueDiv(RatInt(t.height), RatInt(CM_IN_M))
    IN  Mul(Mul(Add(RatMul(CALORIES_WEIGHT_MULTIPLIER, RatInt(t.weight)),
                    Mul(Mul(TrueDiv(v, h), CALORIES_SPEED_HEIGHT_MULTIPLIER),
                        RatInt(t.weight))),
                RatInt(t.duration)),
            RatInt(MIN_IN_H))

SportsWalkingCalories(t) ==
    LET v  == Mul(get_mean_speed(t), KMH_IN_MSEC)
        sq == Mul(v, v)
        h  == TrueDiv(RatInt(t.height), RatInt(CM_IN_M))
    IN  Mul(Mul(Add(RatMul(CALORIES_WEIGHT_MULTIPLIER, RatInt(t.weight)),
                    Mul(Mul(TrueDiv(sq, h), CALORIES_SPEED_HEIGHT_MULTIPLIER),
                        RatInt(t.weight))),
                RatInt(t.duration)),
            RatInt(MIN_IN_H))

\* A plausible fault: EXTRA_MEAN_SPEED subtracted instead of added.
SwimmingCaloriesExtraSubtracted(t) ==
    LET mean_speed == Add(get_mean_speed(t), RatMul(RatInt(-1), EXTRA_MEAN_SPEED))
    IN  Mul(Mul(Mul(mean_speed, MEAN_SPEED_MULTIPLIER), RatInt(t.weight)),
            RatInt(t.duration))

SwimmingCalories(t) ==
    LET mean_speed == Add(get_mean_speed(t), EXTRA_MEAN_SPEED)
    IN  Mul(Mul(Mul(mean_speed, MEAN_SPEED_MULTIPLIER), RatInt(t.weight)),
            RatInt(t.duration))

get_spent_calories(t) ==
    CASE t.kind = "Running"       -> RunningCalories(t)
      [] t.kind = "SportsWalking" -> SportsWalkingCalories(t)
      [] t.kind = "Swimming"      -> SwimmingCalories(t)
      [] OTHER                    -> NotImplementedError

InfoMessage(training_type, duration, distance, speed, calories) ==
    [training_type |-> training_type, duration |-> duration,
     distance |-> distance, speed |-> speed, calories |-> calories]

\* A plausible fault: the report's speed taken as distance / duration for
\* every kind, past Swimming's override.
show_training_info_BaseSpeed(t) ==
    LET distance == get_distance(t)
        speed    == TrainingMeanSpeed(t)
        calories == get_spent_calories(t)
    IN  IF IsExc(distance) THEN distance
        ELSE IF IsExc(speed) THEN speed
        ELSE IF IsExc(calories) THEN calories
        ELSE InfoMessage(t.kind, RatInt(t.duration), distance, speed, calories)

\* The keyword arguments are evaluated in order; the first that raises ends
\* the call.
show_training_info(t) ==
    LET distance == get_distance(t)
        speed    == get_mean_speed(t)
        calories == get_spent_calories(t)
    IN  IF IsExc(distance) THEN distance
        ELSE IF IsExc(speed) THEN speed
        ELSE IF IsExc(calories) THEN calories
        ELSE InfoMessage(t.kind, RatInt(t.duration), distance, speed, calories)

(***************************************************************************)
(* InfoMessage.get_message: every numeric field rendered with '.3f'.       *)
(* Fixed3 is the rendered number in thousandths, rounded to nearest with   *)
(* ties to even, digit by digit as the conversion produces them.           *)
(***************************************************************************)
Fixed3(x) ==
    LET a  == Abs(x.n)
        ip == a \div x.d
        r0 == a % x.d
        d1 == (r0 * 10) \div x.d
        r1 == (r0 * 10) % x.d
        d2 == (r1 * 10) \div x.d
        r2 == (r1 * 10) % x.d
        d3 == (r2 * 10) \div x.d
        r3 == (r2 * 10) % x.d
        t  == ip * 1000 + d1 * 100 + d2 * 10 + d3
        up == IF 2 * r3 > x.d THEN 1
              ELSE IF 2 * r3 = x.d THEN t % 2
              ELSE 0
    IN  [sign |-> IF x.n < 0 THEN "-" ELSE "", thousandths |-> t + up]

get_message(m) ==
    <<m.training_type, Fixed3(m.duration), Fixed3(m.distance),
      Fixed3(m.speed), Fixed3(m.calories)>>

(***************************************************************************)
(* read_package                                                            *)
(***************************************************************************)
WORKOUT_TO_CLASS ==
    [SWM |-> "Swimming", RUN |-> "Running", WLK |-> "SportsWalking"]

\* Number of positional parameters of each class's __init__ (self excluded).
InitArity(class) ==
    CASE class = "Swimming"      -> 5
      [] class = "Running"       -> 3
      [] class = "SportsWalking" -> 4

\* cls(*data): a TypeError unless len(data) is the constructor's arity.
Construct(class, data) ==
    IF Len(data) # InitArity(class)
    THEN Exc("TypeError", <<class, "__init__", Len(data)>>)
    ELSE CASE class = "Swimming"      -> SwimmingInit(data)
           [] class = "Running"       -> RunningInit(data)
           [] class = "SportsWalking" -> SportsWalkingInit(data)

\* The body of the try block: the dictionary lookup, then the call.
TryBody(workout_type, data) ==
    IF workout_type \notin DOMAIN WORKOUT_TO_CLASS
    THEN Exc("KeyError", <<workout_type>>)
    ELSE Construct(WORKOUT_TO_CLASS[workout_type], data)

\* A plausible fault: a bare except, catching whatever the try block raises.
CaughtAny == {"ValueError", "KeyError", "TypeError"}

\* The exception kinds the except clause catches.
Caught == {"ValueError"}

read_package(workout_type, data) ==
    LET r == TryBody(workout_type, data)
    IN  IF IsExc(r) /\ r.exc \in Caught
        THEN Exc("ValueError", <<workout_type, "unknown workout code">>)
        ELSE r

(***************************************************************************)
(* Inputs                                                                  *)
(***************************************************************************)
MaxPackages == 2

Actions == {-20000, 0, 20000, 40000}

Durations == {0, 1, 2}

Weights == {-50, 50, 80}

Heights == {0, 100, 200}

PoolLengths == {25, 50}

PoolCounts == {0, 40}

Data3 == {<<a, d, w>> : a \in Actions, d \in Durations, w \in Weights}

Data4 == {<<a, d, w, h>> : a \in Actions, d \in Durations, w \in Weights,
                            h \in Heights}

Data5 == {<<a, d, w, l, c>> : a \in Actions, d \in Durations, w \in Weights,
                               l \in PoolLengths, c \in PoolCounts}

Codes == {"SWM", "RUN", "WLK", "XYZ"}

Packages == {<<c, data>> : c \in Codes, data \in Data3 \cup Data4 \cup Data5}

\* A few packages of every outcome, for the runs of several packages.
LoopPackages ==
    {<<"SWM", <<20000, 1, 80, 25, 40>>>>, <<"SWM", <<40000, 2, 50, 50, 40>>>>,
     <<"RUN", <<20000, 1, 50>>>>, <<"RUN", <<40000, 1, 80>>>>,
     <<"WLK", <<20000, 1, 50, 100>>>>, <<"WLK", <<40000, 2, 80, 200>>>>,
     <<"XYZ", <<20000, 1, 50>>>>, <<"WLK", <<20000, 1, 50>>>>,
     <<"RUN", <<20000, 0, 50>>>>, <<"WLK", <<20000, 1, 50, 0>>>>}

RECURSIVE SeqsUpTo(_, _)
SeqsUpTo(S, n) ==
    IF n = 0 THEN {<<>>}
    ELSE LET shorter == SeqsUpTo(S, n - 1)
         IN  shorter \cup {Append(s, x) : s \in shorter, x \in S}

(***************************************************************************)
(* The driver: for workout_type, data in packages:                         *)
(*                 training = read_package(workout_type, data)             *)
(*                 main(training)                                          *)
(* An exception is caught nowhere, so it ends the program.                 *)
(***************************************************************************)
InitCommon ==
    /\ i = 1
    /\ pc = "read"
    /\ training = None
    /\ info = None
    /\ stdout = <<>>
    /\ error = None

Init ==
    /\ packages \in {<<p>> : p \in Packages}
    /\ InitCommon

InitLoop ==
    /\ packages \in SeqsUpTo(LoopPackages, MaxPackages) \ {<<>>}
    /\ InitCommon

\* The loop variables: the package being processed.
workout_type == packages[i][1]

data == packages[i][2]

Raise(e) ==
    /\ error' = e
    /\ pc' = "crashed"

\* A plausible fault: the record of an earlier package of the same class is
\* reused instead of a new one being built from this package's data.
ReadPackageReusingRecord ==
    /\ pc = "read"
    /\ LET r == read_package(workout_type, data)
       IN  IF IsExc(r)
           THEN Raise(r) /\ UNCHANGED training
           ELSE /\ training' = IF ~IsNone(training) /\ training.kind = r.kind
                                THEN training ELSE r
                /\ pc' = "main"
                /\ UNCHANGED error
    /\ UNCHANGED <<packages, i, info, stdout>>

\* training = read_package(workout_type, data)
ReadPackage ==
    /\ pc = "read"
    /\ LET r == read_package(workout_type, data)
       IN  IF IsExc(r)
           THEN Raise(r) /\ UNCHANGED training
           ELSE training' = r /\ pc' = "main" /\ UNCHANGED error
    /\ UNCHANGED <<packages, i, info, stdout>>

\* main(training): the call training.show_training_info(), whose exception
\* leaves main and the loop.
ShowTrainingInfo ==
    /\ pc = "main"
    /\ LET r == show_training_info(training)
       IN  IF IsExc(r)
           THEN Raise(r) /\ UNCHANGED info
           ELSE info' = r /\ pc' = "print" /\ UNCHANGED error
    /\ UNCHANGED <<packages, i, training, stdout>>

\* main(training) after that call: print(<report>.get_message()); the loop
\* then takes the next package, or ends after the last one.
PrintMessage ==
    /\ pc = "print"
    /\ stdout' = Append(stdout, get_message(info))
    /\ info' = None
    /\ IF i = Len(packages)
       THEN pc' = "done" /\ UNCHANGED i
       ELSE pc' = "read" /\ i' = i + 1
    /\ UNCHANGED <<packages, training, error>>

Next == ReadPackage \/ ShowTrainingInfo \/ PrintMessage

Spec == Init /\ [][Next]_vars

SpecLoop == InitLoop /\ [][Next]_vars

(***************************************************************************)
(* Properties                                                              *)
(***************************************************************************)
RecognizedCodes == {"SWM", "RUN", "WLK"}

\* The number of parameters each recognized code takes.
CodeArity(code) ==
    CASE code = "RUN" -> 3
      [] code = "WLK" -> 4
      [] code = "SWM" -> 5

Range(s) == {s[k] : k \in DOMAIN s}

RatDiv(a, b) == RatMul(a, Rat(b.d, b.n))

\* The package being processed is well formed: a recognized code with the
\* number of parameters it takes.
WellFormed == workout_type \in RecognizedCodes /\ Len(data) = CodeArity(workout_type)

\* training holds the record built from the package being processed.
HasRecord == pc \in {"main", "print", "done"}

\* The record's divisors are nonzero.
NonzeroDivisors(t) ==
    t.duration # 0 /\ (t.kind = "SportsWalking" => t.height # 0)

\* C1: for a code outside {SWM, RUN, WLK}, read_package returns no record
\* and fails with the ValueError built in read_package, whose message
\* contains the offending code.
C1_UnknownCodeRaisesValueError ==
    (workout_type \notin RecognizedCodes /\ pc # "read")
        => /\ pc = "crashed"
           /\ IsExc(error)
           /\ error.exc = "ValueError"
           /\ workout_type \in Range(error.args)

C3_ZeroDivisorRaisesInvalidParameter ==
    /\ (WellFormed /\ pc \in {"print", "done", "crashed"}
          /\ (data[2] = 0 \/ (workout_type = "WLK" /\ data[4] = 0)))
        => (pc = "crashed" /\ IsExc(error) /\ error.exc = "InvalidParameter")
    /\ IsExc(error) => error.exc # "ZeroDivisionError"

\* C4: for a well-formed package read_package returns a record of the
\* code's kind whose fields are the parameters in positional order.
C4_RecordMatchesPackage ==
    (WellFormed /\ pc # "read")
        => /\ ~IsNone(training)
           /\ IsExc(error) => error.exc \notin {"KeyError", "TypeError", "ValueError"}
           /\ training.action = data[1]
           /\ training.duration = data[2]
           /\ training.weight = data[3]
           /\ workout_type = "RUN"
                => /\ training.kind = "Running"
                   /\ DOMAIN training = {"kind", "action", "duration", "weight"}
           /\ workout_type = "WLK"
                => /\ training.kind = "SportsWalking"
                   /\ DOMAIN training =
                        {"kind", "action", "duration", "weight", "height"}
                   /\ training.height = data[4]
           /\ workout_type = "SWM"
                => /\ training.kind = "Swimming"
                   /\ DOMAIN training =
                        {"kind", "action", "duration", "weight", "length_pool",
                         "count_pool"}
                   /\ training.length_pool = data[4]
                   /\ training.count_pool = data[5]

\* A Swimming record has been returned whose two pool parameters differ.
C4_Witness ==
    /\ pc = "main"
    /\ workout_type = "SWM"
    /\ training.kind = "Swimming"
    /\ training.length_pool # training.count_pool

\* C5: get_distance is action * step_length / 1000 with step_length 0.65
\* for Running and Walking and 1.38 for Swimming, whatever the other fields.
C5_Distance ==
    HasRecord =>
        LET t == training
            hundredths == IF t.kind = "Swimming" THEN 138 ELSE 65
            expected == Rat(t.action * hundredths, 100 * 1000)
        IN  /\ t.kind \in {"Running", "SportsWalking", "Swimming"}
            /\ get_distance(t) = expected
            /\ \A d \in Durations, w \in Weights :
                 get_distance([t EXCEPT !.duration = d, !.weight = w]) = expected
            /\ t.kind = "SportsWalking"
                 => \A h \in Heights :
                      get_distance([t EXCEPT !.height = h]) = expected
            /\ t.kind = "Swimming"
                 => \A l \in PoolLengths, c \in PoolCounts :
                      get_distance([t EXCEPT !.length_pool = l,
                                             !.count_pool = c]) = expected

\* A Swimming record with a nonzero action count, hence a nonzero distance.
C5_Witness ==
    /\ HasRecord
    /\ training.kind = "Swimming"
    /\ training.action # 0
    /\ get_distance(training).n # 0

\* C6: the mean speed of Running and Walking is get_distance() / duration;
\* that of Swimming is length_pool * count_pool / 1000 / duration, whatever
\* the action count.
C6_MeanSpeed ==
    (HasRecord /\ training.duration # 0) =>
        LET t == training
        IN  /\ t.kind \in {"Running", "SportsWalking"}
                 => /\ get_mean_speed(t) = RatDiv(get_distance(t), RatInt(t.duration))
                    /\ get_mean_speed(t) = Rat(t.action * 65, 100000 * t.duration)
            /\ t.kind = "Swimming"
                 => /\ get_mean_speed(t) =
                         Rat(t.length_pool * t.count_pool, 1000 * t.duration)
                    /\ \A a \in Actions :
                         get_mean_speed([t EXCEPT !.action = a]) = get_mean_speed(t)

\* A Swimming record whose mean speed is not its distance over its duration.
C6_Witness ==
    /\ HasRecord
    /\ training.kind = "Swimming"
    /\ training.duration # 0
    /\ get_mean_speed(training) #
         RatDiv(get_distance(training), RatInt(training.duration))

\* C7: get_spent_calories is the formula of the record's kind over that
\* kind's own mean speed, and NotImplementedError on the base class.
C7_Calories ==
    (HasRecord /\ NonzeroDivisors(training)) =>
        LET t == training
            speed == get_mean_speed(t)
            weight == RatInt(t.weight)
            duration == RatInt(t.duration)
        IN  /\ t.kind = "Running"
                 => get_spent_calories(t) =
                      RatMul(RatMul(RatAdd(RatMul(RatInt(18), speed), Rat(179, 100)),
                                    RatDiv(weight, RatInt(1000))),
                             RatMul(duration, RatInt(60)))
            /\ t.kind = "SportsWalking"
                 => get_spent_calories(t) =
                      LET ms == RatMul(speed, Rat(278, 1000))
                          perHeight == RatDiv(RatMul(ms, ms),
                                              RatDiv(RatInt(t.height), RatInt(100)))
                      IN  RatMul(RatMul(RatAdd(RatMul(Rat(35, 1000), weight),
                                               RatMul(RatMul(perHeight, Rat(29, 1000)),
                                                      weight)),
                                        duration),
                                 RatInt(60))
            /\ t.kind = "Swimming"
                 => /\ speed = Rat(t.length_pool * t.count_pool, 1000 * t.duration)
                    /\ get_spent_calories(t) =
                         RatMul(RatMul(RatMul(RatAdd(speed, Rat(11, 10)), RatInt(2)),
                                       weight),
                                duration)
            /\ get_spent_calories(TrainingInit("Training", t.action, t.duration,
                                               t.weight))
                 = Exc("NotImplementedError", <<>>)

\* A Walking record with a nonzero speed, so that the squared term counts.
C7_Witness ==
    /\ HasRecord
    /\ NonzeroDivisors(training)
    /\ training.kind = "SportsWalking"
    /\ get_mean_speed(training).n # 0
    /\ get_spent_calories(training).n > 0

\* The record's weight, duration and mean speed are positive, and its height
\* too if it is a Walking record.
PhysicallyValid(t) ==
    /\ t.weight > 0
    /\ t.duration > 0
    /\ ~IsExc(get_mean_speed(t))
    /\ get_mean_speed(t).n > 0
    /\ t.kind = "SportsWalking" => t.height > 0

\* C8: with positive weight, duration and mean speed (and height, for
\* Walking) get_spent_calories returns a value >= 0.
C8_CaloriesNonNegative ==
    (HasRecord /\ PhysicallyValid(training)) =>
        /\ ~IsExc(get_spent_calories(training))
        /\ get_spent_calories(training).n >= 0

\* A physically valid Swimming record, with calories above zero.
C8_Witness ==
    /\ HasRecord
    /\ PhysicallyValid(training)
    /\ training.kind = "Swimming"
    /\ get_spent_calories(training).n > 0

\* C9: the report of show_training_info holds the record's duration, its
\* get_distance(), its get_mean_speed() and its get_spent_calories(), each of
\* the record's own kind, and the kind's name; the record is left as
\* read_package built it, so producing the report again gives an equal one.
C9_Report ==
    /\ pc = "print" =>
        /\ info.duration = RatInt(training.duration)
        /\ info.distance = get_distance(training)
        /\ info.speed = get_mean_speed(training)
        /\ info.calories = get_spent_calories(training)
        /\ info.training_type = training.kind
        /\ info.training_type =
             (CASE workout_type = "RUN" -> "Running"
                [] workout_type = "WLK" -> "SportsWalking"
                [] workout_type = "SWM" -> "Swimming")
        /\ training.kind = "Swimming" =>
             info.speed = Rat(training.length_pool * training.count_pool,
                              1000 * training.duration)
        /\ show_training_info(training) = info
    /\ pc \in {"print", "done"} => training = read_package(workout_type, data)

\* The report of a Swimming record whose speed is not the reported distance
\* over the reported duration.
C9_Witness ==
    /\ pc = "print"
    /\ training.kind = "Swimming"
    /\ info.speed # RatDiv(info.distance, info.duration)

\* What a package gives when it is processed on its own: the printed
\* message, or the exception.
Alone(p) ==
    LET r == read_package(p[1], p[2])
    IN  IF IsExc(r) THEN r
        ELSE LET m == show_training_info(r)
             IN  IF IsExc(m) THEN m ELSE get_message(m)

\* C10 as stated: once the processing of a sequence of packages has ended,
\* every package of the sequence has its outcome (its message, or its
\* error), the one it gives on its own: a failing package prevents the
\* outcome of no other.
C10_EveryPackageHasItsOutcome ==
    pc \in {"done", "crashed"} =>
        \A k \in 1..Len(packages) :
            \/ k <= Len(stdout) /\ stdout[k] = Alone(packages[k])
            \/ k = Len(stdout) + 1 /\ pc = "crashed" /\ error = Alone(packages[k])

\* C10 as amended: every package the loop has processed has the outcome it
\* gives on its own, whatever came before it, and a failure leaves the
\* messages already printed as they were; the loop ends at the first failing
\* package, so the packages after it are not processed.
C10_ProcessedPackagesOutcome ==
    /\ \A k \in 1..Len(stdout) : stdout[k] = Alone(packages[k])
    /\ pc = "crashed" =>
         /\ Len(stdout) = i - 1
         /\ error = Alone(packages[i])
         /\ ~ENABLED Next
    /\ pc = "done" => Len(stdout) = Len(packages) /\ IsNone(error)
    /\ pc \in {"read", "main", "print"} => Len(stdout) = i - 1 /\ IsNone(error)

\* The second package failed after the first one's message was printed.
C10_Witness ==
    /\ pc = "crashed"
    /\ i = 2
    /\ Len(stdout) = 1
    /\ stdout[1] = Alone(packages[1])

====
